---------------------------- MODULE Spec2Model ----------------------------
(***************************************************************************)
(* Model of src/features/modals/NodeModal/index.tsx: the node modal that   *)
(* reads the node at a path of the JSON document, shows its primitive      *)
(* fields for editing, merges the edited texts back and pushes the new     *)
(* document to the file store.                                             *)
(*                                                                         *)
(* JavaScript values are records tagged by k.  A JavaScript string is a    *)
(* sequence of one-character strings, so that JSON.parse and               *)
(* JSON.stringify are computed character by character.  An object is a     *)
(* sequence of <<key, value>> pairs in property order.  Numbers are        *)
(* integers; object keys of the documents are not integer-like, so that    *)
(* property order is insertion order.                                      *)
(***************************************************************************)
EXTENDS Integers, Sequences, FiniteSets, TLC

----------------------------------------------------------------------------
(* JavaScript values *)

JNull == [k |-> "null"]
JUndef == [k |-> "undefined"]
JBool(b) == [k |-> "boolean", v |-> b]
JNum(n) == [k |-> "number", v |-> n]
JStr(s) == [k |-> "string", v |-> s]
JArr(xs) == [k |-> "array", v |-> xs]
JObj(ms) == [k |-> "object", v |-> ms]

\* the outcome of an evaluation that throws
Thrown == [k |-> "throw"]

IsCompound(x) == x.k \in {"array", "object"}

\* typeof value !== "object" || value === null
IsPrimitive(x) == ~IsCompound(x)

\* typeof x === "object" && x !== null && !Array.isArray(x)
IsPlainObject(x) == x.k = "object"

\* the truthiness of a value, as `if (x)` and `!x` test it
Truthy(x) ==
  CASE x.k \in {"null", "undefined"} -> FALSE
    [] x.k = "boolean" -> x.v
    [] x.k = "number" -> x.v # 0
    [] x.k = "string" -> x.v # <<>>
    [] OTHER -> TRUE

----------------------------------------------------------------------------
(* Characters and numbers *)

Digits == <<"0", "1", "2", "3", "4", "5", "6", "7", "8", "9">>
DigitSet == {Digits[i] : i \in 1..10}
DigitVal(c) == (CHOOSE i \in 1..10 : Digits[i] = c) - 1
WhiteSpace == {" ", "\n"}

RECURSIVE NatToChars(_)
NatToChars(n) ==
  IF n < 10 THEN <<Digits[n + 1]>>
  ELSE Append(NatToChars(n \div 10), Digits[(n % 10) + 1])

\* String(n) for an integer n
NumToChars(n) == IF n < 0 THEN <<"-">> \o NatToChars(0 - n) ELSE NatToChars(n)

RECURSIVE Spaces(_)
Spaces(n) == IF n = 0 THEN <<>> ELSE <<" ">> \o Spaces(n - 1)

----------------------------------------------------------------------------
(* Objects as ordered property lists *)

Keys(ms) == [i \in 1..Len(ms) |-> ms[i][1]]
KeySet(ms) == {ms[i][1] : i \in 1..Len(ms)}
HasKey(ms, key) == key \in KeySet(ms)
Lookup(ms, key) == ms[CHOOSE i \in 1..Len(ms) : ms[i][1] = key][2]

\* obj[key] = val: an existing property keeps its place, a new one is added last
SetProp(ms, key, val) ==
  IF HasKey(ms, key)
    THEN [i \in 1..Len(ms) |-> IF ms[i][1] = key THEN <<key, val>> ELSE ms[i]]
    ELSE Append(ms, <<key, val>>)

----------------------------------------------------------------------------
(* JSON.stringify(value, null, 2) *)

EscapeChar(c) ==
  CASE c = "\"" -> <<"\\", "\"">>
    [] c = "\\" -> <<"\\", "\\">>
    [] c = "\n" -> <<"\\", "n">>
    [] c = "\t" -> <<"\\", "t">>
    [] OTHER -> <<c>>

RECURSIVE Escape(_)
Escape(s) == IF s = <<>> THEN <<>> ELSE EscapeChar(Head(s)) \o Escape(Tail(s))

Quote(s) == <<"\"">> \o Escape(s) \o <<"\"">>

\* the properties JSON.stringify serializes: those whose value is not undefined
RECURSIVE Serializable(_)
Serializable(ms) ==
  IF ms = <<>> THEN <<>>
  ELSE IF Head(ms)[2].k = "undefined" THEN Serializable(Tail(ms))
  ELSE <<Head(ms)>> \o Serializable(Tail(ms))

RECURSIVE Stringify(_, _), StringifyElems(_, _), StringifyProps(_, _)
Stringify(x, ind) ==
  CASE x.k = "null" -> <<"n", "u", "l", "l">>
    [] x.k = "undefined" -> <<"n", "u", "l", "l">>
    [] x.k = "boolean" ->
         IF x.v THEN <<"t", "r", "u", "e">> ELSE <<"f", "a", "l", "s", "e">>
    [] x.k = "number" -> NumToChars(x.v)
    [] x.k = "string" -> Quote(x.v)
    [] x.k = "array" ->
         IF x.v = <<>> THEN <<"[", "]">>
         ELSE <<"[", "\n">> \o StringifyElems(x.v, ind + 2)
              \o <<"\n">> \o Spaces(ind) \o <<"]">>
    [] x.k = "object" ->
         IF Serializable(x.v) = <<>> THEN <<"{", "}">>
         ELSE <<"{", "\n">> \o StringifyProps(Serializable(x.v), ind + 2)
              \o <<"\n">> \o Spaces(ind) \o <<"}">>

StringifyElems(xs, ind) ==
  Spaces(ind) \o Stringify(Head(xs), ind)
  \o (IF Tail(xs) = <<>> THEN <<>>
      ELSE <<",", "\n">> \o StringifyElems(Tail(xs), ind))

StringifyProps(ms, ind) ==
  Spaces(ind) \o Quote(Head(ms)[1]) \o <<":", " ">> \o Stringify(Head(ms)[2], ind)
  \o (IF Tail(ms) = <<>> THEN <<>>
      ELSE <<",", "\n">> \o StringifyProps(Tail(ms), ind))

\* JSON.stringify(x, null, 2): a string, or undefined for undefined
JSONstringify(x) == IF x.k = "undefined" THEN JUndef ELSE JStr(Stringify(x, 0))

----------------------------------------------------------------------------
(* JSON.parse(text): a recursive-descent parse of the characters.  A parse *)
(* result is [ok, val, next]: whether a value was read, the value, and the *)
(* position after it.                                                      *)

NoParse == [ok |-> FALSE, val |-> JUndef, next |-> 0]
Parsed(x, i) == [ok |-> TRUE, val |-> x, next |-> i]

At(t, i) == IF i >= 1 /\ i <= Len(t) THEN t[i] ELSE "<eof>"

RECURSIVE SkipWs(_, _)
SkipWs(t, i) == IF At(t, i) \in WhiteSpace THEN SkipWs(t, i + 1) ELSE i

\* whether the characters of w stand in t from position i
Matches(t, i, w) ==
  /\ i + Len(w) - 1 <= Len(t)
  /\ \A j \in 1..Len(w) : t[i + j - 1] = w[j]

Unescape(c) ==
  CASE c = "n" -> "\n"
    [] c = "t" -> "\t"
    [] OTHER -> c

\* the string that ends at the next unescaped quote, from position i on
RECURSIVE ParseChars(_, _, _)
ParseChars(t, i, acc) ==
  LET c == At(t, i) IN
  CASE c = "<eof>" -> NoParse
    [] c = "\"" -> Parsed(JStr(acc), i + 1)
    [] c \in {"\n", "\t"} -> NoParse
    [] c = "\\" ->
         IF At(t, i + 1) \in {"\"", "\\", "/", "n", "t"}
           THEN ParseChars(t, i + 2, Append(acc, Unescape(At(t, i + 1))))
           ELSE NoParse
    [] OTHER -> ParseChars(t, i + 1, Append(acc, c))

RECURSIVE ParseDigits(_, _, _)
ParseDigits(t, i, acc) ==
  IF At(t, i) \in DigitSet
    THEN ParseDigits(t, i + 1, 10 * acc + DigitVal(At(t, i)))
    ELSE Parsed(JNum(acc), i)

\* an integer literal: "0", or a non-zero digit followed by digits
ParseNat(t, i) ==
  CASE At(t, i) = "0" -> Parsed(JNum(0), i + 1)
    [] At(t, i) \in DigitSet \ {"0"} -> ParseDigits(t, i, 0)
    [] OTHER -> NoParse

ParseNumber(t, i) ==
  IF At(t, i) = "-"
    THEN LET r == ParseNat(t, i + 1) IN
         IF r.ok THEN Parsed(JNum(0 - r.val.v), r.next) ELSE NoParse
    ELSE ParseNat(t, i)

RECURSIVE ParseValue(_, _), ParseElems(_, _, _), ParseProps(_, _, _)
ParseValue(t, i0) ==
  LET i == SkipWs(t, i0)
      c == At(t, i)
  IN CASE c = "{" ->
            IF At(t, SkipWs(t, i + 1)) = "}"
              THEN Parsed(JObj(<<>>), SkipWs(t, i + 1) + 1)
              ELSE ParseProps(t, i + 1, <<>>)
       [] c = "[" ->
            IF At(t, SkipWs(t, i + 1)) = "]"
              THEN Parsed(JArr(<<>>), SkipWs(t, i + 1) + 1)
              ELSE ParseElems(t, i + 1, <<>>)
       [] c = "\"" -> ParseChars(t, i + 1, <<>>)
       [] c = "t" ->
            IF Matches(t, i, <<"t", "r", "u", "e">>)
              THEN Parsed(JBool(TRUE), i + 4) ELSE NoParse
       [] c = "f" ->
            IF Matches(t, i, <<"f", "a", "l", "s", "e">>)
              THEN Parsed(JBool(FALSE), i + 5) ELSE NoParse
       [] c = "n" ->
            IF Matches(t, i, <<"n", "u", "l", "l">>)
              THEN Parsed(JNull, i + 4) ELSE NoParse
       [] c = "-" \/ c \in DigitSet -> ParseNumber(t, i)
       [] OTHER -> NoParse

\* the elements of an array after "[" or ",", up to the closing "]"
ParseElems(t, i, acc) ==
  LET r == ParseValue(t, i)
      j == SkipWs(t, r.next)
  IN IF ~r.ok THEN NoParse
     ELSE CASE At(t, j) = "," -> ParseElems(t, j + 1, Append(acc, r.val))
            [] At(t, j) = "]" -> Parsed(JArr(Append(acc, r.val)), j + 1)
            [] OTHER -> NoParse

\* the properties of an object after "{" or ",", up to the closing "}";
\* a repeated key keeps its first place and takes the last value
ParseProps(t, i0, acc) ==
  LET i == SkipWs(t, i0)
      key == IF At(t, i) = "\"" THEN ParseChars(t, i + 1, <<>>) ELSE NoParse
      colon == SkipWs(t, key.next)
      r == IF key.ok /\ At(t, colon) = ":" THEN ParseValue(t, colon + 1) ELSE NoParse
      j == SkipWs(t, r.next)
  IN IF ~r.ok THEN NoParse
     ELSE CASE At(t, j) = "," -> ParseProps(t, j + 1, SetProp(acc, key.val.v, r.val))
            [] At(t, j) = "}" -> Parsed(JObj(SetProp(acc, key.val.v, r.val)), j + 1)
            [] OTHER -> NoParse

\* JSON.parse(x): the value, or Thrown (SyntaxError).  The argument is
\* converted to a string first, and neither "undefined" nor "" is JSON.
JSONparse(x) ==
  IF x.k # "string" THEN
    (IF x.k = "undefined" THEN Thrown ELSE x)
  ELSE LET r == ParseValue(x.v, 1) IN
       IF r.ok /\ SkipWs(x.v, r.next) = Len(x.v) + 1 THEN r.val ELSE Thrown

----------------------------------------------------------------------------
(* Property access and assignment, as the path walks use them.  A path     *)
(* segment is a string or a number value.                                  *)

\* the property key a segment names
PropKey(seg) == IF seg.k = "number" THEN NumToChars(seg.v) ELSE seg.v

\* the array index a segment names, or -1 when it names none
IndexOf(seg) ==
  IF seg.k = "number" THEN (IF seg.v >= 0 THEN seg.v ELSE -1)
  ELSE LET r == ParseNat(seg.v, 1) IN
       IF r.ok /\ r.next = Len(seg.v) + 1 THEN r.val.v ELSE -1

\* current[segment]: Thrown (TypeError) on null and undefined, undefined
\* for a property that is not there
Index(cur, seg) ==
  CASE cur.k \in {"null", "undefined"} -> Thrown
    [] cur.k = "object" ->
         IF HasKey(cur.v, PropKey(seg)) THEN Lookup(cur.v, PropKey(seg)) ELSE JUndef
    [] cur.k = "array" ->
         IF IndexOf(seg) >= 0 /\ IndexOf(seg) < Len(cur.v) THEN cur.v[IndexOf(seg) + 1]
         ELSE IF PropKey(seg) = <<"l", "e", "n", "g", "t", "h">> THEN JNum(Len(cur.v))
         ELSE JUndef
    [] cur.k = "string" ->
         IF IndexOf(seg) >= 0 /\ IndexOf(seg) < Len(cur.v)
           THEN JStr(<<cur.v[IndexOf(seg) + 1]>>)
         ELSE IF PropKey(seg) = <<"l", "e", "n", "g", "t", "h">> THEN JNum(Len(cur.v))
         ELSE JUndef
    [] OTHER -> JUndef

\* current[lastKey] = val in module (strict mode) code: the changed
\* container, or Thrown (TypeError) when current is null, undefined or a
\* primitive.  An array grows with holes, which serialize as null; a
\* property of an array that is no index is not serialized.
Assign(cur, seg, val) ==
  CASE cur.k = "object" -> JObj(SetProp(cur.v, PropKey(seg), val))
    [] cur.k = "array" ->
         IF IndexOf(seg) >= 0
           THEN JArr([i \in 1..(IF IndexOf(seg) < Len(cur.v) THEN Len(cur.v)
                                ELSE IndexOf(seg) + 1) |->
                        IF i = IndexOf(seg) + 1 THEN val
                        ELSE IF i <= Len(cur.v) THEN cur.v[i] ELSE JUndef])
         ELSE IF PropKey(seg) = <<"l", "e", "n", "g", "t", "h">> THEN Thrown
         ELSE cur
    [] OTHER -> Thrown

\* for (const segment of path) current = current[segment]
RECURSIVE Walk(_, _)
Walk(cur, path) ==
  IF path = <<>> THEN cur
  ELSE LET nxt == Index(cur, Head(path)) IN
       IF nxt = Thrown THEN Thrown ELSE Walk(nxt, Tail(path))

\* the document after walking to the parent of the last segment and
\* assigning there (lines 44-51); the containers on the way are shared
\* with the document, so the assignment shows in it
RECURSIVE WriteAt(_, _, _)
WriteAt(doc, path, val) ==
  IF Len(path) = 1 THEN Assign(doc, path[1], val)
  ELSE LET child == Index(doc, Head(path))
           sub == IF child = Thrown THEN Thrown ELSE WriteAt(child, Tail(path), val)
       IN IF sub = Thrown THEN Thrown ELSE Assign(doc, Head(path), sub)

\* { ...x }: the own enumerable properties of x
Spread(x) ==
  CASE x.k = "object" -> x.v
    [] x.k = "array" -> [i \in 1..Len(x.v) |-> <<NumToChars(i - 1), x.v[i]>>]
    [] x.k = "string" -> [i \in 1..Len(x.v) |-> <<NumToChars(i - 1), JStr(<<x.v[i]>>)>>]
    [] OTHER -> <<>>

\* the properties whose value is not an object or array (lines 85-89, 189-193)
RECURSIVE Filtered(_)
Filtered(ms) ==
  IF ms = <<>> THEN <<>>
  ELSE IF IsPrimitive(Head(ms)[2]) THEN <<Head(ms)>> \o Filtered(Tail(ms))
  ELSE Filtered(Tail(ms))

----------------------------------------------------------------------------
(* The functions of the module and of the component.  nodeData is NoNode   *)
(* (no node selected) or [path, text]; text is the rows of the selected    *)
(* node, each [key, value, type].                                          *)

NoNode == [k |-> "null"]
PathOf(nd) == IF nd = NoNode THEN <<>> ELSE nd.path
TextOf(nd) == IF nd = NoNode THEN <<>> ELSE nd.text

\* `${value}` for a row value
TemplateString(x) ==
  CASE x.k = "string" -> x.v
    [] x.k = "number" -> NumToChars(x.v)
    [] OTHER -> Stringify(x, 0)

\* lines 16-21: obj[row.key] = row.value for the rows that are no array or object
RECURSIVE RowsObject(_, _)
RowsObject(rows, obj) ==
  IF rows = <<>> THEN obj
  ELSE LET row == Head(rows) IN
       IF row.type \notin {"array", "object"} /\ Truthy(row.key)
         THEN RowsObject(Tail(rows), SetProp(obj, row.key.v, row.value))
         ELSE RowsObject(Tail(rows), obj)

normalizeNodeData(nodeRows) ==
  IF Len(nodeRows) = 0 THEN JStr(<<"{", "}">>)
  ELSE IF Len(nodeRows) = 1 /\ ~Truthy(nodeRows[1].key)
    THEN JStr(TemplateString(nodeRows[1].value))
  ELSE JSONstringify(JObj(RowsObject(nodeRows, <<>>)))

\* a variant of SegmentText that leaves out the quotes of a string segment
SegmentTextBare(seg) == IF seg.k = "number" THEN NumToChars(seg.v) ELSE seg.v

\* line 28: typeof seg === "number" ? seg : `"${seg}"`
SegmentText(seg) ==
  IF seg.k = "number" THEN NumToChars(seg.v) ELSE <<"\"">> \o seg.v \o <<"\"">>

\* Array.prototype.join
RECURSIVE Join(_, _)
Join(parts, sep) ==
  IF parts = <<>> THEN <<>>
  ELSE IF Len(parts) = 1 THEN parts[1]
  ELSE parts[1] \o sep \o Join(Tail(parts), sep)

\* lines 26-30
jsonPathToString(path) ==
  IF Len(path) = 0 THEN <<"$">>
  ELSE <<"$", "[">> \o Join([i \in 1..Len(path) |-> SegmentText(path[i])], <<"]", "[">>)
       \o <<"]">>

\* line 53, when the walk and the assignment did not throw
WrittenText(written) == IF written = Thrown THEN Thrown ELSE JSONstringify(written)

\* a variant of WriteParsed that takes every update for a root level update
WriteParsedAtRoot(parsedJson, path, parsedNewValue) ==
  IF parsedJson = Thrown \/ parsedNewValue = Thrown THEN Thrown
  ELSE JSONstringify(parsedNewValue)

\* a variant of WriteParsed whose root level update keeps the document
WriteParsedKeepingRoot(parsedJson, path, parsedNewValue) ==
  IF parsedJson = Thrown \/ parsedNewValue = Thrown THEN Thrown
  ELSE IF Len(path) = 0 THEN JSONstringify(parsedJson)
  ELSE WrittenText(WriteAt(parsedJson, path, parsedNewValue))

\* lines 38-53, once both texts are parsed
WriteParsed(parsedJson, path, parsedNewValue) ==
  IF parsedJson = Thrown \/ parsedNewValue = Thrown THEN Thrown
  ELSE IF Len(path) = 0 THEN JSONstringify(parsedNewValue)
  ELSE WrittenText(WriteAt(parsedJson, path, parsedNewValue))

\* lines 33-57: the new document text, or Thrown (Error "Invalid JSON format")
updateJsonAtPath(jsonString, path, newValue) ==
  WriteParsed(JSONparse(jsonString), path, JSONparse(newValue))

\* lines 83-93: the text of the value the path leads to
ContentOf(current) ==
  IF IsPlainObject(current) THEN JSONstringify(JObj(Filtered(current.v)))
  ELSE JSONstringify(current)

\* a variant of ReadParsed without the catch of lines 94-96
ReadParsedThrowing(parsedJson, nd) ==
  IF parsedJson = Thrown THEN Thrown
  ELSE IF Len(PathOf(nd)) = 0 THEN JSONstringify(parsedJson)
  ELSE IF Walk(parsedJson, PathOf(nd)) = Thrown THEN Thrown
  ELSE ContentOf(Walk(parsedJson, PathOf(nd)))

\* lines 72-96, once the document text is parsed
ReadParsed(parsedJson, nd) ==
  IF parsedJson = Thrown THEN normalizeNodeData(TextOf(nd))
  ELSE IF Len(PathOf(nd)) = 0 THEN JSONstringify(parsedJson)
  ELSE IF Walk(parsedJson, PathOf(nd)) = Thrown THEN normalizeNodeData(TextOf(nd))
  ELSE ContentOf(Walk(parsedJson, PathOf(nd)))

\* lines 67-97
getFreshContent(oc, js, nd) ==
  IF Truthy(oc) THEN oc ELSE ReadParsed(JSONparse(js), nd)

\* a variant of getFullNodeObject that returns the node as the modal shows
\* it, without its array and object fields
getShownNodeObject(js, nd) == JSONparse(ReadParsed(JSONparse(js), nd))

\* lines 104-116, once the document text is parsed
NodeOf(parsedJson, nd) ==
  IF parsedJson = Thrown THEN JObj(<<>>)
  ELSE IF Walk(parsedJson, PathOf(nd)) = Thrown THEN JObj(<<>>)
  ELSE Walk(parsedJson, PathOf(nd))

\* lines 102-117
getFullNodeObject(js, nd) == NodeOf(JSONparse(js), nd)

\* the text an edit field shows for a primitive value (line 128)
FieldText(x) == IF x.k = "string" THEN x.v ELSE Stringify(x, 0)

\* lines 125-130: the texts of the primitive properties
FieldTexts(prims) == [i \in 1..Len(prims) |-> <<prims[i][1], FieldText(prims[i][2])>>]

\* lines 123-132, once the content is parsed
KeyValuesOf(parsed) == IF IsPlainObject(parsed) THEN FieldTexts(Filtered(parsed.v)) ELSE <<>>

\* lines 120-137
parseContentToKeyValues(content) == KeyValuesOf(JSONparse(content))

\* a variant of OrRaw that keeps the text as a quoted literal
OrRawQuoted(parsed, text) == IF parsed = Thrown THEN JStr(Quote(text)) ELSE parsed

\* what the catch of lines 178-182 does to the outcome of the parse
OrRaw(parsed, text) == IF parsed = Thrown THEN JStr(text) ELSE parsed

\* lines 178-182: the parsed text, or the text itself when it is no JSON
Reinterpret(text) == OrRaw(JSONparse(JStr(text)), text)

\* lines 175-183: the edits assigned, in order, into the copy of the node
RECURSIVE MergeEdits(_, _)
MergeEdits(ms, eb) ==
  IF eb = <<>> THEN ms
  ELSE MergeEdits(SetProp(ms, Head(eb)[1], Reinterpret(Head(eb)[2])), Tail(eb))

\* lines 172-183: the node at the path with the edits merged in
MergedObject(js, nd, ev) == JObj(MergeEdits(Spread(getFullNodeObject(js, nd)), ev))

\* lines 188-194: what the save shows at once
OptimisticView(mergedObj) == JSONstringify(JObj(Filtered(mergedObj.v)))

----------------------------------------------------------------------------
(* The documents, nodes and field texts the model draws its inputs from *)

\* the number of documents handleSave may push in one run
MaxSaves == 1
\* the number of times the store document may change under the component
MaxStoreUpdates == 1

Key(c) == <<c>>
Row(key, value, type) == [key |-> key, value |-> value, type |-> type]

\* {"a":{"b":1,"c":[1,2]}}
DocA == JObj(<< <<Key("a"), JObj(<< <<Key("b"), JNum(1)>>,
                                    <<Key("c"), JArr(<<JNum(1), JNum(2)>>)>> >>)>> >>)
\* {"a":{"b":"5"}}: a string that reads as a number
DocS == JObj(<< <<Key("a"), JObj(<< <<Key("b"), JStr(<<"5">>)>> >>)>> >>)
\* {"x":5}
DocX == JObj(<< <<Key("x"), JNum(5)>> >>)
\* 7: a document that is a bare scalar
Doc7 == JNum(7)
\* text that is no JSON
Malformed == JStr(<<"{">>)

DocTexts == {JSONstringify(DocA), JSONstringify(DocS), JSONstringify(DocX),
             JSONstringify(Doc7), Malformed}

\* the nodes the graph can select: the root and the node at ["a"]
NodeRoot == [path |-> <<>>,
             text |-> <<Row(JStr(Key("x")), JNum(5), "number")>>]
NodeAt == [path |-> <<JStr(Key("a"))>>,
           text |-> <<Row(JStr(Key("b")), JNum(1), "number"),
                      Row(JStr(Key("c")), JStr(<<"[", "2", "]">>), "array")>>]
Nodes == {NodeRoot, NodeAt}

\* what the user types into a field: 5, hi, []
EditTexts == {<<"5">>, <<"h", "i">>, <<"[", "]">>}

\* {"x":5,"c":[1,2]}: a root mapping with a compound field
DocM == JObj(<< <<Key("x"), JNum(5)>>, <<Key("c"), JArr(<<JNum(1), JNum(2)>>)>> >>)
\* {"a":[{"b":true}]}: a mapping inside a sequence
DocL == JObj(<< <<Key("a"), JArr(<<JObj(<< <<Key("b"), JBool(TRUE)>> >>)>>)>> >>)

AllDocTexts == DocTexts \cup {JSONstringify(DocM), JSONstringify(DocL)}

\* the node at ["a", 0] and the node at ["a", "c", 1], whose snapshot is a
\* single row without a key
NodeIdx == [path |-> <<JStr(Key("a")), JNum(0)>>,
            text |-> <<Row(JStr(Key("b")), JBool(TRUE), "boolean")>>]
NodeElem == [path |-> <<JStr(Key("a")), JStr(Key("c")), JNum(1)>>,
             text |-> <<Row(JNull, JNum(2), "number")>>]
AllNodes == Nodes \cup {NodeIdx, NodeElem}

\* 5, hi, [], hello
AllEditTexts == EditTexts \cup {<<"h", "e", "l", "l", "o">>}

----------------------------------------------------------------------------
(* The state of the component and of the stores it uses *)

VARIABLES
  opened,             \* the prop `opened`
  nodeData,           \* useGraph: selectedNode
  json,               \* useJson: the document text the component reads
  contents,           \* useFile: what setContents was last given
  isEditing,          \* useState, line 61
  editedValues,       \* useState, line 62: <<key, text>> pairs
  optimisticContent,  \* useState, line 63: null or a string
  toast,              \* the notification the last event emitted
  event,              \* the last event
  committed,          \* the overlay value of the last save of this session
                      \* that reached setContents, or null
  nSaves,
  nStoreUpdates

vars == <<opened, nodeData, json, contents, isEditing, editedValues,
          optimisticContent, toast, event, committed, nSaves, nStoreUpdates>>

NoToast == "none"
ToastSuccess == "success: JSON updated successfully"
ToastError == "error: Invalid JSON format"

\* line 99: what the current render shows
originalContent == getFreshContent(optimisticContent, json, nodeData)

\* lines 139-143: after every render, outside editing, the edit buffer is
\* the key-value form of the content shown
EditedValuesEffect(op, ed, ev, oc, js, nd) ==
  IF op /\ ~ed THEN parseContentToKeyValues(getFreshContent(oc, js, nd)) ELSE ev

Init ==
  /\ opened = FALSE
  /\ nodeData = NoNode
  /\ json = JSONstringify(DocA)
  /\ contents = [contents |-> json, hasChanges |-> FALSE]
  /\ isEditing = FALSE
  /\ editedValues = <<>>
  /\ optimisticContent = JNull
  /\ toast = NoToast
  /\ event = "mount"
  /\ committed = JNull
  /\ nSaves = 0
  /\ nStoreUpdates = 0

----------------------------------------------------------------------------
(* The events.  Each is a handler or an effect together with the render    *)
(* and the effects that follow it.                                         *)

\* a variant of SessionOpen without the effect of lines 146-150
SessionOpenKeepingOverlay(nd) ==
  /\ ~opened
  /\ opened' = TRUE
  /\ nodeData' = nd
  /\ editedValues' = EditedValuesEffect(TRUE, isEditing, editedValues,
                                        optimisticContent, json, nd)
  /\ toast' = NoToast
  /\ event' = "open"
  /\ committed' = JNull
  /\ UNCHANGED <<json, contents, isEditing, optimisticContent, nSaves, nStoreUpdates>>

\* the parent shows the modal for a selected node; lines 139-150 run
SessionOpen(nd) ==
  /\ ~opened
  /\ opened' = TRUE
  /\ nodeData' = nd
  /\ optimisticContent' = JNull
  /\ editedValues' = EditedValuesEffect(TRUE, isEditing, editedValues, JNull, json, nd)
  /\ toast' = NoToast
  /\ event' = "open"
  /\ committed' = JNull
  /\ UNCHANGED <<json, contents, isEditing, nSaves, nStoreUpdates>>

\* the parent sets the prop `opened` to false without the modal asking
ParentHide ==
  /\ opened
  /\ opened' = FALSE
  /\ toast' = NoToast
  /\ event' = "hide"
  /\ UNCHANGED <<nodeData, json, contents, isEditing, editedValues,
                 optimisticContent, committed, nSaves, nStoreUpdates>>

\* line 214
keyValuePairs == parseContentToKeyValues(originalContent)

\* lines 152-155; the Edit button shows outside editing when there are
\* key-value pairs (lines 215, 236)
handleEdit ==
  /\ opened /\ ~isEditing
  /\ editedValues' = keyValuePairs
  /\ editedValues' # <<>>
  /\ isEditing' = TRUE
  /\ toast' = NoToast
  /\ event' = "edit"
  /\ UNCHANGED <<opened, nodeData, json, contents, optimisticContent,
                 committed, nSaves, nStoreUpdates>>

\* a variant of handleCancel that also clears the overlay
handleCancelClearing ==
  /\ opened /\ isEditing
  /\ isEditing' = FALSE
  /\ optimisticContent' = JNull
  /\ editedValues' = parseContentToKeyValues(getFreshContent(JNull, json, nodeData))
  /\ toast' = NoToast
  /\ event' = "cancel"
  /\ UNCHANGED <<opened, nodeData, json, contents, committed, nSaves, nStoreUpdates>>

\* lines 157-160
handleCancel ==
  /\ opened /\ isEditing
  /\ isEditing' = FALSE
  /\ editedValues' = keyValuePairs
  /\ toast' = NoToast
  /\ event' = "cancel"
  /\ UNCHANGED <<opened, nodeData, json, contents, optimisticContent,
                 committed, nSaves, nStoreUpdates>>

\* what a write of the edit buffer ev gives: the new document text, or the
\* old one when the write throws
SavedText(ev) ==
  LET updatedJson == updateJsonAtPath(json, PathOf(nodeData),
                                      JSONstringify(MergedObject(json, nodeData, ev)))
  IN IF updatedJson = Thrown THEN contents.contents ELSE updatedJson

\* a variant of handleValueChange that writes every change of a field
\* through to the file store
handleValueChangeSaving(key, value) ==
  /\ opened /\ isEditing
  /\ HasKey(editedValues, key)
  /\ editedValues' = SetProp(editedValues, key, value)
  /\ contents' = [contents |-> SavedText(SetProp(editedValues, key, value)),
                  hasChanges |-> TRUE]
  /\ toast' = NoToast
  /\ event' = "change"
  /\ UNCHANGED <<opened, nodeData, json, isEditing, optimisticContent,
                 committed, nSaves, nStoreUpdates>>

\* lines 162-167; a field is shown for each entry of the edit buffer
handleValueChange(key, value) ==
  /\ opened /\ isEditing
  /\ HasKey(editedValues, key)
  /\ editedValues' = SetProp(editedValues, key, value)
  /\ toast' = NoToast
  /\ event' = "change"
  /\ UNCHANGED <<opened, nodeData, json, contents, isEditing, optimisticContent,
                 committed, nSaves, nStoreUpdates>>

\* lines 199-202: the document is pushed and editing ends; the edit
\* buffer then follows the content shown (lines 139-143)
SaveDone(updatedJson, shown) ==
  /\ nSaves < MaxSaves
  /\ contents' = [contents |-> updatedJson, hasChanges |-> TRUE]
  /\ isEditing' = FALSE
  /\ editedValues' = parseContentToKeyValues(shown)
  /\ toast' = ToastSuccess
  /\ event' = "saveOk"
  /\ committed' = shown
  /\ nSaves' = nSaves + 1

\* a variant of SaveCatch that leaves editing mode
SaveCatchEndingEdit ==
  /\ toast' = ToastError
  /\ event' = "saveFail"
  /\ isEditing' = FALSE
  /\ UNCHANGED <<contents, editedValues, committed, nSaves>>

\* lines 203-205
SaveCatch ==
  /\ toast' = ToastError
  /\ event' = "saveFail"
  /\ UNCHANGED <<contents, isEditing, editedValues, committed, nSaves>>

\* lines 194-205: the overlay is set, then the document is written
SaveWrite(shown, updatedJson) ==
  /\ optimisticContent' = shown
  /\ IF updatedJson = Thrown THEN SaveCatch ELSE SaveDone(updatedJson, shown)

\* lines 185-196
SaveMerged(mergedObj) ==
  SaveWrite(OptimisticView(mergedObj),
            updateJsonAtPath(json, PathOf(nodeData), JSONstringify(mergedObj)))

\* lines 169-206
handleSave ==
  /\ opened /\ isEditing
  /\ SaveMerged(MergedObject(json, nodeData, editedValues))
  /\ UNCHANGED <<opened, nodeData, json, nStoreUpdates>>

\* lines 208-212; onClose makes the parent set `opened` to false
handleClose ==
  /\ opened
  /\ isEditing' = FALSE
  /\ optimisticContent' = JNull
  /\ opened' = FALSE
  /\ toast' = NoToast
  /\ event' = "close"
  /\ committed' = JNull
  /\ UNCHANGED <<nodeData, json, contents, editedValues, nSaves, nStoreUpdates>>

\* useJson publishes a new document text: the one pushed to useFile, or
\* one edited elsewhere; the component renders again (line 64)
StoreUpdate(d) ==
  /\ nStoreUpdates < MaxStoreUpdates
  /\ d # json
  /\ json' = d
  /\ editedValues' = EditedValuesEffect(opened, isEditing, editedValues,
                                        optimisticContent, d, nodeData)
  /\ toast' = NoToast
  /\ event' = "store"
  /\ nStoreUpdates' = nStoreUpdates + 1
  /\ UNCHANGED <<opened, nodeData, contents, isEditing, optimisticContent,
                 committed, nSaves>>

Next ==
  \/ \E nd \in Nodes : SessionOpen(nd)
  \/ ParentHide
  \/ handleEdit
  \/ handleCancel
  \/ \E i \in 1..Len(editedValues), value \in EditTexts :
       handleValueChange(editedValues[i][1], value)
  \/ handleSave
  \/ handleClose
  \/ \E d \in DocTexts \cup {contents.contents} : StoreUpdate(d)

Spec == Init /\ [][Next]_vars

\* line 281: the path the modal shows
pathShown == jsonPathToString(PathOf(nodeData))

(* The component over any of the documents: the store starts with one of   *)
(* AllDocTexts, sessions are opened on any of AllNodes, and the store      *)
(* publishes only what the component pushed.                               *)
InitAnyDoc ==
  /\ opened = FALSE
  /\ nodeData = NoNode
  /\ json \in AllDocTexts
  /\ contents = [contents |-> json, hasChanges |-> FALSE]
  /\ isEditing = FALSE
  /\ editedValues = <<>>
  /\ optimisticContent = JNull
  /\ toast = NoToast
  /\ event = "mount"
  /\ committed = JNull
  /\ nSaves = 0
  /\ nStoreUpdates = 0

NextAnyDoc ==
  \/ \E nd \in AllNodes : SessionOpen(nd)
  \/ handleEdit
  \/ handleCancel
  \/ \E i \in 1..Len(editedValues), value \in AllEditTexts :
       handleValueChange(editedValues[i][1], value)
  \/ handleSave
  \/ handleClose
  \/ StoreUpdate(contents.contents)

SpecAnyDoc == InitAnyDoc /\ [][NextAnyDoc]_vars

----------------------------------------------------------------------------
(* What the properties below speak of *)

\* the node at path of nd in the document of a text; Thrown when the text
\* is malformed or the walk throws
NodeAtPath(doc, nd) == IF doc = Thrown THEN Thrown ELSE Walk(doc, PathOf(nd))
NodeIn(text, nd) == NodeAtPath(JSONparse(text), nd)

IsMapping(x) == x.k = "object"

\* the keys of project(n): the fields of n that are no array or object
ProjectionKeys(n) == KeySet(Filtered(n.v))

\* whether documents d and e are equal everywhere except at the path
RECURSIVE SameExceptAt(_, _, _)
SameExceptAt(d, e, path) ==
  \/ path = <<>>
  \/ /\ d.k = "object" /\ e.k = "object"
     /\ Keys(d.v) = Keys(e.v)
     /\ HasKey(d.v, PropKey(Head(path)))
     /\ \A i \in 1..Len(d.v) :
          IF d.v[i][1] = PropKey(Head(path))
            THEN SameExceptAt(d.v[i][2], e.v[i][2], Tail(path))
            ELSE d.v[i][2] = e.v[i][2]
  \/ /\ d.k = "array" /\ e.k = "array"
     /\ Len(d.v) = Len(e.v)
     /\ IndexOf(Head(path)) >= 0 /\ IndexOf(Head(path)) < Len(d.v)
     /\ \A i \in 1..Len(d.v) :
          IF i = IndexOf(Head(path)) + 1
            THEN SameExceptAt(d.v[i], e.v[i], Tail(path))
            ELSE d.v[i] = e.v[i]

\* whether m is n with each entry of the edit buffer eb overwritten by its
\* reinterpreted value
Overwritten(n, eb, m) ==
  /\ IsMapping(m)
  /\ KeySet(m.v) = KeySet(n.v) \cup KeySet(eb)
  /\ \A key \in KeySet(m.v) :
       Lookup(m.v, key) = IF HasKey(eb, key) THEN Reinterpret(Lookup(eb, key))
                          ELSE Lookup(n.v, key)

----------------------------------------------------------------------------
(* C1: a successful save of an edit buffer whose keys are keys of the      *)
(* projection of the mapping node N at the path leaves every array-valued  *)
(* or object-valued field of N present and unchanged in the node at the    *)
(* path of the document pushed to the store.                               *)
CompoundFieldsKept(n, m) ==
  /\ IsMapping(m)
  /\ \A i \in 1..Len(n.v) :
       IsCompound(n.v[i][2])
         => HasKey(m.v, n.v[i][1]) /\ Lookup(m.v, n.v[i][1]) = n.v[i][2]

C1_CompoundFieldsKept ==
  [][(/\ event' = "saveOk"
      /\ IsMapping(NodeIn(json, nodeData))
      /\ KeySet(editedValues) \subseteq ProjectionKeys(NodeIn(json, nodeData)))
     => CompoundFieldsKept(NodeIn(json, nodeData),
                           NodeIn(contents'.contents, nodeData))]_vars

\* a save of the node at ["a"] was pushed with b edited to the string hi
\* and the array c still in the node
C1_Witness ==
  /\ event = "saveOk"
  /\ PathOf(nodeData) = <<JStr(Key("a"))>>
  /\ NodeIn(contents.contents, nodeData)
       = JObj(<< <<Key("b"), JStr(<<"h", "i">>)>>,
                 <<Key("c"), JArr(<<JNum(1), JNum(2)>>)>> >>)

(* C2: for a non-empty path that resolves to a mapping node N, a           *)
(* successful save pushes a document equal to the store document           *)
(* everywhere except at the path, where the node is N with each entry of   *)
(* the edit buffer overwritten by its reinterpreted value.                 *)
MergedAtPath(d, e, nd, eb) ==
  /\ e # Thrown
  /\ SameExceptAt(d, e, PathOf(nd))
  /\ Overwritten(NodeAtPath(d, nd), eb, NodeAtPath(e, nd))

MergedTextAtPath(old, new, nd, eb) == MergedAtPath(JSONparse(old), JSONparse(new), nd, eb)

C2_SaveWritesMergedNodeAtPath ==
  [][(/\ event' = "saveOk"
      /\ PathOf(nodeData) # <<>>
      /\ IsMapping(NodeIn(json, nodeData)))
     => MergedTextAtPath(json, contents'.contents, nodeData, editedValues)]_vars

\* the scenario of the claim: {"a":{"b":1,"c":[1,2]}} at ["a"] with b
\* edited to 5 is pushed as {"a":{"b":5,"c":[1,2]}}
C2_Witness ==
  /\ event = "saveOk"
  /\ JSONparse(json) = DocA
  /\ PathOf(nodeData) = <<JStr(Key("a"))>>
  /\ JSONparse(contents.contents) =
       JObj(<< <<Key("a"), JObj(<< <<Key("b"), JNum(5)>>,
                                   <<Key("c"), JArr(<<JNum(1), JNum(2)>>)>> >>)>> >>)

(* C3: a field whose text in the edit buffer is the text the field of the  *)
(* mapping node N was given (it was not edited) has the same value, of the *)
(* same kind, in the saved node as in N; a save with no field edited       *)
(* leaves the document unchanged.                                          *)
SameDocument(old, new) == JSONparse(old) = JSONparse(new)

UntouchedKept(n, eb, m) ==
  /\ IsMapping(m)
  /\ \A i \in 1..Len(eb) :
       (/\ HasKey(n.v, eb[i][1])
        /\ IsPrimitive(Lookup(n.v, eb[i][1]))
        /\ eb[i][2] = FieldText(Lookup(n.v, eb[i][1])))
         => HasKey(m.v, eb[i][1]) /\ Lookup(m.v, eb[i][1]) = Lookup(n.v, eb[i][1])

C3_UneditedFieldsUnchanged ==
  [][(event' = "saveOk" /\ IsMapping(NodeIn(json, nodeData)))
     => /\ UntouchedKept(NodeIn(json, nodeData), editedValues,
                         NodeIn(contents'.contents, nodeData))
        /\ editedValues = FieldTexts(Filtered(NodeIn(json, nodeData).v))
             => SameDocument(json, contents'.contents)]_vars

(* C4: when a save fails, the edit buffer is as it was before, the session *)
(* is still in editing mode, the store document is unchanged and a failure *)
(* notification is emitted.                                                *)
C4_FailedSaveKeepsSession ==
  [][event' = "saveFail"
     => /\ editedValues' = editedValues
        /\ isEditing /\ isEditing'
        /\ contents' = contents /\ json' = json
        /\ toast' = ToastError]_vars

\* a save failed while the edit buffer held an edited field
C4_Witness ==
  /\ event = "saveFail"
  /\ isEditing
  /\ \E i \in 1..Len(editedValues) : editedValues[i][2] = <<"h", "i">>

(* C5: whenever the overlay holds a value, the store has accepted a write  *)
(* of this session since it was opened, and a save that fails leaves the   *)
(* overlay as it was before the save.                                      *)
C5_OverlayOnlyBySuccessfulSave ==
  /\ [](Truthy(optimisticContent) => committed # JNull)
  /\ [][event' = "saveFail" => optimisticContent' = optimisticContent]_vars

(* C6: the overlay never holds the value of a save whose document has not  *)
(* been pushed to the store: a held value is the value of a save that      *)
(* reached the store.                                                      *)
C6_OverlayAfterPush == Truthy(optimisticContent) => optimisticContent = committed

\* the key-values of the content the modal shows
ShownKeyValues(oc, js, nd) == parseContentToKeyValues(getFreshContent(oc, js, nd))

(* C7, as claimed, in the case it names: closing or cancelling after a     *)
(* save of the session ends editing and leaves the overlay empty.          *)
C7_CloseOrCancelClearsOverlay ==
  [][(event' \in {"close", "cancel"} /\ committed # JNull)
     => /\ ~isEditing'
        /\ optimisticContent' = JNull]_vars

(* C7, amended: closing ends editing, leaves the overlay empty and the     *)
(* edit buffer is set anew from the content read when the session is       *)
(* opened again; cancelling ends editing and sets the edit buffer to the   *)
(* key-values of the content shown, and leaves the overlay as it was.      *)
C7_CloseClearsCancelKeepsOverlay ==
  [][/\ event' = "close"
        => ~opened' /\ ~isEditing' /\ optimisticContent' = JNull
     /\ (event = "close" /\ event' = "open")
        => editedValues' = ShownKeyValues(optimisticContent', json', nodeData')
     /\ event' = "cancel"
        => /\ ~isEditing'
           /\ optimisticContent' = optimisticContent
           /\ editedValues' = ShownKeyValues(optimisticContent', json', nodeData')]_vars

\* editing was cancelled after a save of this session, with the overlay held
C7_Witness ==
  /\ event = "cancel"
  /\ Truthy(optimisticContent)
  /\ committed # JNull

(* C8: the documents of the stores change only by a save: open, edit,      *)
(* field change, cancel and close leave them as they are, and the pushed   *)
(* document changes in no step but a successful save.                      *)
C8_NoPartialWrites ==
  [][/\ event' \in {"open", "edit", "change", "cancel", "close"}
        => contents' = contents /\ json' = json
     /\ contents' # contents => event' = "saveOk"]_vars

\* a field was changed and the edit buffer differs from what the store holds
C8_Witness ==
  /\ event = "change"
  /\ editedValues # parseContentToKeyValues(getFreshContent(JNull, json, nodeData))
  /\ contents.contents = json

(* C9: after every session open, whatever the overlay and the editing      *)
(* state were, the overlay is empty and the content read is the one        *)
(* computed from the store document.                                       *)
\* whether the content read is the one computed from the store document
ReadsStore(oc, js, nd) == getFreshContent(oc, js, nd) = ReadParsed(JSONparse(js), nd)

C9_OpenClearsOverlay ==
  [][event' = "open"
     => /\ optimisticContent' = JNull
        /\ ReadsStore(optimisticContent', json', nodeData')]_vars

\* a session was opened while the editing state of an earlier one was kept
C9_Witness ==
  /\ event = "open"
  /\ isEditing
  /\ optimisticContent = JNull
  /\ nSaves > 0

(* C10: a store update leaves a held overlay as it is, and from a          *)
(* successful save until the next open or close the content read is the    *)
(* value that save held.                                                   *)
C10_StoreUpdateKeepsOverlay ==
  /\ [][event' = "store" => optimisticContent' = optimisticContent]_vars
  /\ [](committed # JNull => originalContent = committed)

----------------------------------------------------------------------------
(* Path resolution as the properties speak of it: every segment names a    *)
(* key that is present in a mapping or an index that is present in a       *)
(* sequence.                                                               *)
RECURSIVE Resolves(_, _)
Resolves(cur, path) ==
  \/ path = <<>>
  \/ /\ cur.k = "object"
     /\ HasKey(cur.v, PropKey(Head(path)))
     /\ Resolves(Lookup(cur.v, PropKey(Head(path))), Tail(path))
  \/ /\ cur.k = "array"
     /\ IndexOf(Head(path)) >= 0 /\ IndexOf(Head(path)) < Len(cur.v)
     /\ Resolves(cur.v[IndexOf(Head(path)) + 1], Tail(path))

ResolvesIn(doc, nd) == doc # Thrown /\ Resolves(doc, PathOf(nd))

\* whether the text is a well-formed document in which the path of nd resolves
PathResolves(text, nd) == ResolvesIn(JSONparse(text), nd)

WellFormed(text) == JSONparse(text) # Thrown

(* C12: a save issued while the path of the session does not resolve in    *)
(* the store document (an intermediate value is not indexable, or the      *)
(* final key or index is absent) emits the failure notification and        *)
(* pushes no document.                                                     *)
C12_UnresolvedSaveFails ==
  [][(event' \in {"saveOk", "saveFail"} /\ ~PathResolves(json, nodeData))
     => toast' = ToastError /\ contents' = contents]_vars

(* C14: for a well-formed store document in which the path does not        *)
(* resolve, the content read with the overlay empty is the degraded        *)
(* projection of the node snapshot, a string, as for a malformed document. *)
DegradedRead(js, nd) ==
  /\ getFreshContent(JNull, js, nd) = normalizeNodeData(TextOf(nd))
  /\ getFreshContent(JNull, js, nd).k = "string"

C14_UnresolvedReadDegrades ==
  (WellFormed(json) /\ ~PathResolves(json, nodeData)) => DegradedRead(json, nodeData)

(* C16: after a successful save of a mapping node, every key of the edit   *)
(* buffer holds a number, boolean, null or string in the node pushed,      *)
(* never an array or object, so that the keys of the projection of the     *)
(* pushed node include every key of the edit buffer.                       *)
ScalarEntries(eb, m) ==
  /\ IsMapping(m)
  /\ \A i \in 1..Len(eb) :
       HasKey(m.v, eb[i][1]) /\ IsPrimitive(Lookup(m.v, eb[i][1]))
  /\ KeySet(eb) \subseteq ProjectionKeys(m)

PushedScalars(eb, text, nd) == ScalarEntries(eb, NodeIn(text, nd))

C16_EntriesAreScalars ==
  [][(event' = "saveOk" /\ IsMapping(NodeIn(json, nodeData)))
     => PushedScalars(editedValues, contents'.contents, nodeData)]_vars

(* C20: when the session enters editing mode, the edit buffer is the       *)
(* projection of the node stored at the path in the store document.  The   *)
(* formula takes the case where the store has just published its document  *)
(* and the overlay is empty or holds the value of a save that was pushed.  *)
StoredKeyValues(js, nd) == parseContentToKeyValues(getFreshContent(JNull, js, nd))

C20_EditStartsFromStore ==
  [][(/\ event = "store" /\ event' = "edit"
      /\ optimisticContent \in {JNull, committed})
     => editedValues' = StoredKeyValues(json, nodeData)]_vars

(* C19: the path shown is $ for the empty path, and otherwise $ followed, *)
(* in order, by [<index>] for each integer segment and ["<key>"] for each  *)
(* string segment.                                                         *)
RECURSIVE Bracketed(_)
Bracketed(path) ==
  IF path = <<>> THEN <<>>
  ELSE <<"[">>
       \o (IF Head(path).k = "number" THEN NumToChars(Head(path).v)
           ELSE <<"\"">> \o Head(path).v \o <<"\"">>)
       \o <<"]">> \o Bracketed(Tail(path))

\* the paths of up to MaxPathLen segments out of PathSegments
MaxPathLen == 3
PathSegments == {JStr(<<"a">>), JStr(<<"c", "d">>), JNum(0), JNum(12)}
Paths == UNION {[1..m -> PathSegments] : m \in 0..MaxPathLen}

C19_PathDisplay ==
  /\ pathShown = <<"$">> \o Bracketed(PathOf(nodeData))
  /\ PathOf(nodeData) = <<>> => pathShown = <<"$">>
  /\ \A path \in Paths : jsonPathToString(path) = <<"$">> \o Bracketed(path)

\* the path ["a", 0] is shown as $["a"][0]
C19_Witness ==
  /\ opened
  /\ PathOf(nodeData) = <<JStr(<<"a">>), JNum(0)>>
  /\ pathShown = <<"$", "[", "\"", "a", "\"", "]", "[", "0", "]">>

(* C13: for store text that is no well-formed document, the content read  *)
(* with the overlay empty is a string (the read does not throw): the       *)
(* degraded projection made of the rows of the node snapshot, or the       *)
(* placeholder {} when there is no snapshot.                               *)
C13_MalformedReadDegrades ==
  ~WellFormed(json)
    => /\ getFreshContent(JNull, json, nodeData).k = "string"
       /\ getFreshContent(JNull, json, nodeData) = normalizeNodeData(TextOf(nodeData))
       /\ TextOf(nodeData) = <<>>
            => getFreshContent(JNull, json, nodeData) = JStr(<<"{", "}">>)

\* the store text is malformed and the modal shows the rows of the snapshot
\* of the node at ["a"] that are no array or object
C13_Witness ==
  /\ opened
  /\ json = Malformed
  /\ nodeData = NodeAt
  /\ originalContent = JSONstringify(JObj(<< <<Key("b"), JNum(1)>> >>))

(* C11: the value the overlay holds after a successful save is the value   *)
(* the read computes, with the overlay empty, from the document that save  *)
(* pushed, for every document and path, the empty root path included.      *)
OverlayIsRead(oc, text, nd) == oc = getFreshContent(JNull, text, nd)

C11_OverlayEqualsRead ==
  [][event' = "saveOk"
     => OverlayIsRead(optimisticContent', contents'.contents, nodeData)]_vars

(* C17: for a well-formed document and a path that resolves to a mapping   *)
(* node, the empty root path included, the projection the read returns     *)
(* has exactly the fields of the node whose value is no array or object,   *)
(* and no key whose value in the node is compound.                         *)
IsProjectionOf(p, n) ==
  /\ IsMapping(p)
  /\ KeySet(p.v) = ProjectionKeys(n)
  /\ \A key \in KeySet(p.v) : IsPrimitive(Lookup(n.v, key))
  /\ \A key \in KeySet(p.v) : Lookup(p.v, key) = Lookup(n.v, key)

ReadIsProjection(js, nd) ==
  IsProjectionOf(JSONparse(getFreshContent(JNull, js, nd)), NodeIn(js, nd))

C17_ProjectionFidelity ==
  (opened /\ PathResolves(json, nodeData) /\ IsMapping(NodeIn(json, nodeData)))
    => ReadIsProjection(json, nodeData)

(* C15: a save of a mapping node with a field whose text is no JSON        *)
(* literal does not fail: it succeeds, that field holds the text as a      *)
(* string, every other field of the edit buffer holds the value its text   *)
(* parses to, and the fields outside the edit buffer are as in the node.   *)
IsLiteral(text) == JSONparse(JStr(text)) # Thrown

MergedWithRaw(n, eb, m) ==
  /\ IsMapping(m)
  /\ KeySet(m.v) = KeySet(n.v) \cup KeySet(eb)
  /\ \A i \in 1..Len(eb) :
       Lookup(m.v, eb[i][1]) = IF IsLiteral(eb[i][2]) THEN JSONparse(JStr(eb[i][2]))
                               ELSE JStr(eb[i][2])
  /\ \A key \in KeySet(n.v) \ KeySet(eb) : Lookup(m.v, key) = Lookup(n.v, key)

PushedWithRaw(old, new, nd, eb) == MergedWithRaw(NodeIn(old, nd), eb, NodeIn(new, nd))

C15_RawTextNeverFailsSave ==
  [][(/\ event' \in {"saveOk", "saveFail"}
      /\ IsMapping(NodeIn(json, nodeData))
      /\ \E i \in 1..Len(editedValues) : ~IsLiteral(editedValues[i][2]))
     => /\ event' = "saveOk" /\ toast' = ToastSuccess
        /\ PushedWithRaw(json, contents'.contents, nodeData, editedValues)]_vars

\* the scenario of the claim: {"x":5} at the root path with x edited to
\* hello is pushed as {"x":"hello"}
C15_Witness ==
  /\ event = "saveOk"
  /\ JSONparse(json) = DocX
  /\ PathOf(nodeData) = <<>>
  /\ JSONparse(contents.contents)
       = JObj(<< <<Key("x"), JStr(<<"h", "e", "l", "l", "o">>)>> >>)

(* C18: for every well-formed document D and every value V, the write at   *)
(* the empty path returns V, whatever D holds: the text returned parses    *)
(* to the value of V and is V itself when V is in the form JSON.stringify  *)
(* gives; a save at the root path pushes exactly the merged text.          *)
\* {"x":5} without white space
CompactX == JStr(<<"{", "\"", "x", "\"", ":", "5", "}">>)

ValueTexts == (AllDocTexts \ {Malformed}) \cup {CompactX}

RootWriteGives(D, V) ==
  /\ updateJsonAtPath(D, <<>>, V) # Thrown
  /\ JSONparse(updateJsonAtPath(D, <<>>, V)) = JSONparse(V)
  /\ V = JSONstringify(JSONparse(V)) => updateJsonAtPath(D, <<>>, V) = V

RootSavePushes(js, nd, eb, pushed) == pushed = JSONstringify(MergedObject(js, nd, eb))

C18_RootWriteReturnsValue ==
  /\ [](WellFormed(json) => \A V \in ValueTexts : RootWriteGives(json, V))
  /\ [][(/\ event' \in {"saveOk", "saveFail"}
         /\ PathOf(nodeData) = <<>>
         /\ WellFormed(json))
        => /\ event' = "saveOk"
           /\ RootSavePushes(json, nodeData, editedValues, contents'.contents)]_vars

\* a save at the root path replaced the document {"x":5,"c":[1,2]} by the
\* merged value, which differs from it
C18_Witness ==
  /\ event = "saveOk"
  /\ PathOf(nodeData) = <<>>
  /\ JSONparse(json) = DocM
  /\ contents.contents # json
  /\ contents.contents = updateJsonAtPath(json, <<>>, contents.contents)

=============================================================================
